---- MODULE Spec2Model ----
(***************************************************************************)
(* Storage host of siacore (src/siacore/host.go): contract validation,     *)
(* the negotiation session, file retrieval and the storage-proof schedule  *)
(* maintained across chain updates.                                        *)
(***************************************************************************)
EXTENDS Integers, Sequences, FiniteSets, TLC

(* ------------------------------------------------------------------ *)
(* Bounds of the model                                                  *)
(* ------------------------------------------------------------------ *)

\* Unsigned machine integers (uint64 in the source) wrap modulo UintMod.
UintMod == 64
\* Chain heights explored: the chain-update path stops applying blocks here.
MaxHeight == 11
\* Blocks one chain update may rewind / apply.
MaxRewind == 1
MaxApply == 2
\* Concurrent NegotiateContract sessions.
NumSessions == 2

(* ------------------------------------------------------------------ *)
(* Program constants                                                    *)
(* ------------------------------------------------------------------ *)

AcceptContractResponse == "accept"
StorageProofReorgDepth == 6

\* consensus.CoinAddress{}: the zero value of an address.
EmptyAddress == "0000"
AddressA == "addrA"
AddressB == "addrB"

\* Conversion to an unsigned machine integer (wraps).
Uint(x) == x % UintMod

(* ------------------------------------------------------------------ *)
(* Error values                                                         *)
(* ------------------------------------------------------------------ *)

NoError == "nil"
PanicIndex == "panic: index out of range"
ErrOneContract == "transaction must have exactly one contract"
ErrFileSize == "file is of incorrect size"
ErrCapacity == "host is at capacity and can not take more files."
ErrDuration == "contract duration is out of bounds"
ErrChallenge == "challenges frequency is too often"
ErrTolerance == "tolerance is too low"
ErrValidAddress == "coins are not paying out to correct address"
ErrValidPayout == "valid proof payout is too low"
ErrMissedAddress == "burn payout needs to go to the empty address"
ErrMissedPayout == "burn payout is too high for a missed proof."
ErrFund == "ContractFund does not cover the entire duration of the contract."
ErrWallet == "Host is having trouble - sorry!"
ErrSign == "wallet: could not sign"
ErrPostVerify == "post-verified transaction not valid - most likely a client error, but could be a host error too"
ErrNoRecord == "no record of that file"
ErrIO == "i/o error"
ErrMerkle == "uploaded file has wrong merkle root"
ErrLate == "file not uploaded in time, refusing to go forward with contract"
ErrAcceptTxn == "transaction rejected"

(* ------------------------------------------------------------------ *)
(* Host settings                                                        *)
(* ------------------------------------------------------------------ *)

\* The zero value of HostAnnouncement, which CreateHost leaves in place.
ZeroSettings ==
    [TotalStorage |-> 0, MinFilesize |-> 0, MaxFilesize |-> 0,
     MinDuration |-> 0, MaxDuration |-> 0,
     MinChallengeWindow |-> 0, MaxChallengeWindow |-> 0,
     MinTolerance |-> 0, Price |-> 0, Burn |-> 0, CoinAddress |-> EmptyAddress]

\* The operator's announcement (the scenario settings, scaled down).
ScenarioSettings ==
    [TotalStorage |-> 1, MinFilesize |-> 1, MaxFilesize |-> 2,
     MinDuration |-> 2, MaxDuration |-> 12,
     MinChallengeWindow |-> 1, MaxChallengeWindow |-> 3,
     MinTolerance |-> 1, Price |-> 1, Burn |-> 1, CoinAddress |-> AddressA]

\* Announcements the operator may install with SetHostSettings.
Announcements == {ScenarioSettings}

\* Further announcements used when the validator is exercised on its own.
ValidatorAnnouncements ==
    Announcements \cup
    {[ScenarioSettings EXCEPT !.TotalStorage = 4],
     [ScenarioSettings EXCEPT !.Price = 2, !.Burn = 0]}

(* ------------------------------------------------------------------ *)
(* Transactions proposed by clients                                     *)
(* ------------------------------------------------------------------ *)

\* Uploaded data: sequences of bytes.
Byte == {0, 1}

RECURSIVE HashBytes(_)
\* hash of a byte sequence (collision free on the modelled data).
HashBytes(bytes) ==
    IF bytes = <<>> THEN 1
    ELSE 2 * HashBytes(SubSeq(bytes, 1, Len(bytes) - 1)) + bytes[Len(bytes)]

\* hash.ReaderMerkleRoot over the first fileSize bytes of a file; fails when
\* the file is shorter than that.
ReaderMerkleRoot(content, fileSize) ==
    IF Len(content) < fileSize THEN [err |-> ErrIO, root |-> 0]
    ELSE [err |-> NoError, root |-> HashBytes(SubSeq(content, 1, fileSize))]

\* A file contract that meets ScenarioSettings at height 0.
GoodContract ==
    [Start |-> 3, End |-> 11, FileSize |-> 1, ChallengeWindow |-> 1,
     Tolerance |-> 1, ValidProofAddress |-> AddressA, ValidProofPayout |-> 1,
     MissedProofAddress |-> EmptyAddress, MissedProofPayout |-> 0,
     ContractFund |-> 16, FileMerkleRoot |-> HashBytes(<<0>>)]

Txn(id, contracts) == [ID |-> id, FileContracts |-> contracts]

\* Transactions the sessions of the host propose.
TxnGood == Txn(1, <<GoodContract>>)
TxnEarly == Txn(2, <<[GoodContract EXCEPT !.Start = 1, !.ContractFund = 20,
                                          !.FileMerkleRoot = HashBytes(<<1>>)]>>)
TxnTooBig == Txn(3, <<[GoodContract EXCEPT !.FileSize = 3]>>)
TxnTwo == Txn(4, <<GoodContract, GoodContract>>)
TxnNone == Txn(5, <<>>)

Proposals == {TxnGood, TxnEarly, TxnTooBig, TxnTwo, TxnNone}

\* Transactions the validator is exercised on: every check failing alone,
\* and several failing together.
ValidatorProposals ==
    Proposals \cup
    {Txn(6, <<[GoodContract EXCEPT !.FileSize = 2]>>),
     Txn(7, <<[GoodContract EXCEPT !.End = 13, !.ContractFund = 20]>>),
     Txn(8, <<[GoodContract EXCEPT !.End = 1]>>),
     Txn(9, <<[GoodContract EXCEPT !.ChallengeWindow = 0]>>),
     Txn(10, <<[GoodContract EXCEPT !.ChallengeWindow = 4, !.ValidProofPayout = 4]>>),
     Txn(11, <<[GoodContract EXCEPT !.Tolerance = 0]>>),
     Txn(12, <<[GoodContract EXCEPT !.ValidProofAddress = AddressB]>>),
     Txn(13, <<[GoodContract EXCEPT !.ValidProofPayout = 0]>>),
     Txn(14, <<[GoodContract EXCEPT !.MissedProofAddress = AddressB]>>),
     Txn(15, <<[GoodContract EXCEPT !.MissedProofPayout = 2]>>),
     Txn(16, <<[GoodContract EXCEPT !.ContractFund = 15]>>),
     Txn(17, <<[GoodContract EXCEPT !.Tolerance = 0, !.ContractFund = 0]>>),
     Txn(18, <<[GoodContract EXCEPT !.FileSize = 3, !.MissedProofAddress = AddressB]>>),
     Txn(19, <<[GoodContract EXCEPT !.FileSize = 0, !.ValidProofPayout = 0,
                                    !.ContractFund = 0]>>),
     Txn(20, <<[GoodContract EXCEPT !.FileSize = 3], GoodContract>>)}

(* ------------------------------------------------------------------ *)
(* State                                                                *)
(* ------------------------------------------------------------------ *)

VARIABLES
    Settings,           \* Host.Settings
    SpaceRemaining,     \* Host.SpaceRemaining (int64)
    Files,              \* Host.Files: merkle root -> file name
    Index,              \* Host.Index
    ForwardContracts,   \* Host.ForwardContracts: height -> entries
    BackwardContracts,  \* Host.BackwardContracts: height -> entries
    height,             \* the height of the consensus state, e.Height()
    disk,               \* the host directory: path -> inode
    inodes,             \* inode -> bytes of the file
    sess,               \* the NegotiateContract sessions
    last,               \* the operation that made the last step, with its results
    hostLock,           \* Host.RWMutex: the holder of the write lock
    stateLock,          \* the lock of the consensus state: its writer and its readers
    upd                 \* the position of the chain-update path

hostVars == <<Settings, SpaceRemaining, Files, Index, ForwardContracts, BackwardContracts>>
fsVars == <<disk, inodes>>
lockVars == <<hostLock, stateLock, upd>>
vars == <<Settings, SpaceRemaining, Files, Index, ForwardContracts,
          BackwardContracts, height, disk, inodes, sess, last, hostLock, stateLock, upd>>

Sessions == 1..NumSessions

\* A session that has not started, and one that has returned.
IdleSession == [pc |-> "idle"]
DoneSession == [pc |-> "done"]

\* Lock holders: a session holds a lock under its number; Free is a lock
\* nobody holds and UpdatePath the chain-update path.
Free == 0
UpdatePath == NumSessions + 1

\* No lock is held and no chain update is under way.
LocksFree ==
    /\ hostLock = Free
    /\ stateLock = [writer |-> Free, readers |-> {}]
    /\ upd = "idle"

\* CreateHost: empty maps, zero settings, no space, index 0.
Init ==
    /\ Settings = ZeroSettings
    /\ SpaceRemaining = 0
    /\ Files = <<>>
    /\ Index = 0
    /\ ForwardContracts = <<>>
    /\ BackwardContracts = <<>>
    /\ height = 0
    /\ disk = <<>>
    /\ inodes = <<>>
    /\ sess = [s \in Sessions |-> IdleSession]
    /\ last = [op |-> "create"]
    /\ LocksFree

(* ------------------------------------------------------------------ *)
(* considerContract                                                     *)
(* ------------------------------------------------------------------ *)

\* considerContract with the check of the file size left out.
considerContractNoSizeCheck(t, fundOK, signOK, validOK) ==
    IF Len(t.FileContracts) = 0 THEN PanicIndex
    ELSE IF Len(t.FileContracts) # 1 THEN ErrOneContract
    ELSE IF t.FileContracts[1].FileSize > Uint(SpaceRemaining) THEN ErrCapacity
    ELSE IF ~(fundOK /\ signOK /\ validOK) THEN ErrWallet
    ELSE NoError

\* The error considerContract returns for transaction t in the current state;
\* fundOK, signOK and validOK are the outcomes of wallet.FundTransaction,
\* wallet.SignTransaction and state.ValidTransaction.
considerContract(t, fundOK, signOK, validOK) ==
    IF Len(t.FileContracts) = 0 THEN PanicIndex
    ELSE
    LET fc == t.FileContracts[1]
        contractDuration == Uint(fc.End - fc.Start)
        fullDuration == Uint(fc.End - height)
        fileSize == fc.FileSize
        requiredSize == Uint(Settings.Price * fileSize * fc.ChallengeWindow)
        maxBurn == Uint(Settings.Burn * fileSize * fc.ChallengeWindow)
        requiredFund == Uint((Settings.Burn + Settings.Price) * fileSize * contractDuration)
    IN  IF Len(t.FileContracts) # 1 THEN ErrOneContract
        ELSE IF fileSize < Settings.MinFilesize \/ fileSize > Settings.MaxFilesize
            THEN ErrFileSize
        ELSE IF fileSize > Uint(SpaceRemaining) THEN ErrCapacity
        ELSE IF fullDuration < Settings.MinDuration \/ fullDuration > Settings.MaxDuration
            THEN ErrDuration
        ELSE IF fc.ChallengeWindow < Settings.MinChallengeWindow
                \/ fc.ChallengeWindow > Settings.MaxChallengeWindow
            THEN ErrChallenge
        ELSE IF fc.Tolerance < Settings.MinTolerance THEN ErrTolerance
        ELSE IF fc.ValidProofAddress # Settings.CoinAddress THEN ErrValidAddress
        ELSE IF fc.ValidProofPayout < requiredSize THEN ErrValidPayout
        ELSE IF fc.MissedProofAddress # EmptyAddress THEN ErrMissedAddress
        ELSE IF fc.MissedProofPayout > maxBurn THEN ErrMissedPayout
        ELSE IF fc.ContractFund < requiredFund THEN ErrFund
        ELSE IF ~fundOK THEN ErrWallet
        ELSE IF ~signOK THEN ErrSign
        ELSE IF ~validOK THEN ErrPostVerify
        ELSE NoError

(* ------------------------------------------------------------------ *)
(* Maps, file names and the host directory                              *)
(* ------------------------------------------------------------------ *)

\* A Go map read: the zero value (a nil slice) when the key is absent.
Get(m, k) == IF k \in DOMAIN m THEN m[k] ELSE <<>>
\* m[k] = v
Put(m, k, v) == [x \in DOMAIN m \cup {k} |-> IF x = k THEN v ELSE m[x]]
\* delete(m, k)
Delete(m, k) == [x \in DOMAIN m \ {k} |-> m[x]]

Digits == <<"0", "1", "2", "3", "4", "5", "6", "7", "8", "9">>

RECURSIVE Itoa(_)
\* strconv.Itoa of a non-negative int: its decimal digits.
Itoa(n) == IF n < 10 THEN <<Digits[n + 1]>> ELSE Itoa(n \div 10) \o <<Digits[(n % 10) + 1]>>

\* e.hostDir
HostDir == <<"hostdir", "/">>

\* A session between os.Create and its return holds an open file.
HasFile(x) == x.pc \in {"copy", "verify", "timecheck", "register", "submit", "insert"}

\* Inodes still referenced by a directory entry or by an open file of a
\* session other than s; the others are freed when s closes its file.
LiveInodes(d, ss, s) ==
    {d[p] : p \in DOMAIN d} \cup {ss[o].fd : o \in {x \in Sessions \ {s} : HasFile(ss[x])}}

CloseFile(d, ino, s) == [i \in DOMAIN ino \cap LiveInodes(d, sess, s) |-> ino[i]]

\* The inode os.Create gives a path that does not exist yet.
FreshInode == CHOOSE i \in 1..(Cardinality(DOMAIN inodes) + 1) : i \notin DOMAIN inodes

\* Bytes written at offset 0 of a file.
WriteAt0(old, bytes) ==
    IF Len(bytes) >= Len(old) THEN bytes ELSE bytes \o SubSeq(old, Len(bytes) + 1, Len(old))

(* ------------------------------------------------------------------ *)
(* NegotiateContract                                                    *)
(* ------------------------------------------------------------------ *)

\* What the clients send after the acceptance token.
ClientStreams == {<<0>>, <<1>>, <<>>}

\* The transactions session s proposes: every client signs its own.
ProposalsOf(s) == {[p EXCEPT !.ID = 10 * s + p.ID] : p \in Proposals}

\* ContractEntry{ID: t.FileContractID(0), Contract: &t.FileContracts[0]}
ContractEntry(t) == [ID |-> t.ID, Contract |-> t.FileContracts[1]]

\* The deferred calls of a session that returns err after its file was
\* created: os.Remove(filename) when err is not nil, then file.Close().
ReturnAfterCreate(s, err) ==
    LET d == IF err # NoError THEN Delete(disk, sess[s].fname) ELSE disk
    IN  /\ disk' = d
        /\ inodes' = CloseFile(d, inodes, s)
        /\ sess' = [sess EXCEPT ![s] = DoneSession]

\* The outcomes of the collaborators considerContract calls, in call order:
\* they are reached only when every policy check passed.
CollaboratorOutcomes(t) ==
    IF considerContract(t, TRUE, TRUE, TRUE) = NoError
    THEN {<<TRUE, TRUE, TRUE>>, <<FALSE, TRUE, TRUE>>, <<TRUE, FALSE, TRUE>>, <<TRUE, TRUE, FALSE>>}
    ELSE {<<TRUE, TRUE, TRUE>>}

\* What a step of NegotiateContract that ends in considerContract's reply
\* leaves to observe: the proposal's number of contracts and file size, the
\* error of considerContract and the messages written to the connection.
Reply(t, cerr, sent) ==
    [op |-> "NegotiateContract", step |-> "consider",
     contracts |-> Len(t.FileContracts),
     fileSize |-> IF Len(t.FileContracts) = 0 THEN 0 ELSE t.FileContracts[1].FileSize,
     cerr |-> cerr, sent |-> sent]

\* Lines 260-273: decode, considerContract, and the reply to the client. A
\* call that ends here leaves the session free for the client's next call.
NegotiateConsider(s) ==
    /\ sess[s].pc = "idle"
    /\ \E t \in ProposalsOf(s) : \E c \in CollaboratorOutcomes(t) :
        LET cerr == considerContract(t, c[1], c[2], c[3])
        IN  \/ /\ cerr = PanicIndex
               /\ sess' = sess
               /\ last' = Reply(t, cerr, <<>>)
            \/ /\ cerr \notin {PanicIndex, NoError}
               /\ sess' = sess
               /\ last' = Reply(t, cerr, <<cerr>>)
            \/ /\ cerr = NoError
               /\ \E writeOK \in BOOLEAN :
                    sess' = [sess EXCEPT ![s] =
                                IF writeOK THEN [pc |-> "create", t |-> t] ELSE DoneSession]
               /\ last' = Reply(t, cerr, <<AcceptContractResponse>>)
    /\ UNCHANGED <<hostVars, height, fsVars>>
    /\ UNCHANGED lockVars

\* Lines 275-287: the file name from Host.Index, and os.Create.
NegotiateCreate(s) ==
    /\ sess[s].pc = "create"
    /\ \E createOK \in BOOLEAN :
        LET filename == HostDir \o Itoa(Index)
        IN  \/ /\ ~createOK
               /\ sess' = [sess EXCEPT ![s] = DoneSession]
               /\ UNCHANGED fsVars
               /\ last' = [op |-> "NegotiateContract", step |-> "upload"]
            \/ /\ createOK
               /\ LET ino == IF filename \in DOMAIN disk THEN disk[filename] ELSE FreshInode
                  IN  /\ disk' = Put(disk, filename, ino)
                      /\ inodes' = Put(inodes, ino, <<>>)
                      /\ sess' = [sess EXCEPT ![s] =
                                    [pc |-> "copy", t |-> sess[s].t, fname |-> filename, fd |-> ino]]
               /\ last' = [op |-> "NegotiateContract", step |-> "upload"]
    /\ UNCHANGED <<hostVars, height>>
    /\ UNCHANGED lockVars

\* Lines 289-293: io.CopyN of FileSize bytes from the connection.
NegotiateCopy(s) ==
    /\ sess[s].pc = "copy"
    /\ \E stream \in ClientStreams :
        LET size == sess[s].t.FileContracts[1].FileSize
            fd == sess[s].fd
        IN  IF Len(stream) >= size
            THEN /\ inodes' = [inodes EXCEPT ![fd] = WriteAt0(@, SubSeq(stream, 1, size))]
                 /\ disk' = disk
                 /\ sess' = [sess EXCEPT ![s].pc = "verify"]
                 /\ last' = [op |-> "NegotiateContract", step |-> "upload"]
            ELSE /\ ReturnAfterCreate(s, ErrIO)
                 /\ last' = [op |-> "NegotiateContract", step |-> "upload"]
    /\ UNCHANGED <<hostVars, height>>
    /\ UNCHANGED lockVars

\* Lines 295-307: the merkle root of the file against the contract's.
NegotiateVerify(s) ==
    /\ sess[s].pc = "verify"
    /\ LET fc == sess[s].t.FileContracts[1]
           r == ReaderMerkleRoot(inodes[sess[s].fd], fc.FileSize)
           err == IF r.err # NoError THEN r.err
                  ELSE IF r.root # fc.FileMerkleRoot THEN ErrMerkle ELSE NoError
       IN  /\ IF err = NoError
              THEN /\ sess' = [sess EXCEPT ![s].pc = "timecheck"]
                   /\ UNCHANGED fsVars
              ELSE ReturnAfterCreate(s, err)
           /\ last' = [op |-> "NegotiateContract", step |-> "upload"]
    /\ UNCHANGED <<hostVars, height>>
    /\ UNCHANGED lockVars

\* Line 310: e.Height() >= t.FileContracts[0].Start-2, in unsigned arithmetic.
UploadLate(start) == height >= Uint(start - 2)

\* Lines 309-313: the check that the file arrived in time.
NegotiateTimeCheck(s) ==
    /\ sess[s].pc = "timecheck"
    /\ IF UploadLate(sess[s].t.FileContracts[1].Start)
       THEN /\ ReturnAfterCreate(s, ErrLate)
            /\ last' = [op |-> "NegotiateContract", step |-> "upload"]
       ELSE /\ sess' = [sess EXCEPT ![s].pc = "register"]
            /\ UNCHANGED fsVars
            /\ last' = [op |-> "NegotiateContract", step |-> "upload"]
    /\ UNCHANGED <<hostVars, height>>
    /\ UNCHANGED lockVars

\* Lines 315-319: under the host lock, record the file name and bump Index.
NegotiateRegister(s) ==
    /\ sess[s].pc = "register"
    /\ Files' = Put(Files, sess[s].t.FileContracts[1].FileMerkleRoot, Itoa(Index))
    /\ Index' = Index + 1
    /\ sess' = [sess EXCEPT ![s].pc = "submit"]
    /\ last' = [op |-> "NegotiateContract", step |-> "upload"]
    /\ UNCHANGED <<Settings, SpaceRemaining, ForwardContracts, BackwardContracts, height, fsVars>>
    /\ UNCHANGED lockVars

\* t.FileContracts[0].Start + StorageProofReorgDepth
FirstProof(t) == Uint(t.FileContracts[1].Start + StorageProofReorgDepth)

\* Lines 321-330 up to the read of the bucket: AcceptTransaction, then the
\* map read that append(e.host.ForwardContracts[firstProof], ...) starts with.
NegotiateSubmit(s) ==
    /\ sess[s].pc = "submit"
    /\ \E acceptOK \in BOOLEAN :
        IF acceptOK
        THEN /\ sess' = [sess EXCEPT ![s] =
                    [pc |-> "insert", t |-> sess[s].t, fname |-> sess[s].fname, fd |-> sess[s].fd,
                     bucket |-> Get(ForwardContracts, FirstProof(sess[s].t))]]
             /\ UNCHANGED fsVars
             /\ last' = [op |-> "NegotiateContract", step |-> "upload"]
        ELSE /\ ReturnAfterCreate(s, ErrAcceptTxn)
             /\ last' = [op |-> "NegotiateContract", step |-> "upload"]
    /\ UNCHANGED <<hostVars, height>>
    /\ UNCHANGED lockVars

\* Line 330, the map write, and the return: the bucket read earlier with the
\* new entry appended is stored at firstProof, without the host lock.
NegotiateInsert(s) ==
    /\ sess[s].pc = "insert"
    /\ ForwardContracts' = Put(ForwardContracts, FirstProof(sess[s].t),
                               Append(sess[s].bucket, ContractEntry(sess[s].t)))
    /\ ReturnAfterCreate(s, NoError)
    /\ last' = [op |-> "NegotiateContract", step |-> "upload"]
    /\ UNCHANGED <<Settings, SpaceRemaining, Files, Index, BackwardContracts, height>>
    /\ UNCHANGED lockVars

NegotiateContract(s) ==
    \/ NegotiateConsider(s)
    \/ NegotiateCreate(s)
    \/ NegotiateCopy(s)
    \/ NegotiateVerify(s)
    \/ NegotiateTimeCheck(s)
    \/ NegotiateRegister(s)
    \/ NegotiateSubmit(s)
    \/ NegotiateInsert(s)

(* ------------------------------------------------------------------ *)
(* SetHostSettings and RetrieveFile                                     *)
(* ------------------------------------------------------------------ *)

\* Lines 64-71.
SetHostSettings(ha) ==
    /\ SpaceRemaining' = SpaceRemaining + (ha.TotalStorage - Settings.TotalStorage)
    /\ Settings' = ha
    /\ last' = [op |-> "SetHostSettings"]
    /\ UNCHANGED <<Files, Index, ForwardContracts, BackwardContracts, height, fsVars, sess>>
    /\ UNCHANGED lockVars

\* Content identifiers clients ask for.
RetrievalRequests == {HashBytes(<<0>>), HashBytes(<<0, 1>>)}

\* RetrieveFile without the check that the file is known.
RetrieveResultsNoCheck(merkle) ==
    IF merkle \notin DOMAIN Files THEN {[err |-> NoError, sent |-> <<>>]}
    ELSE {[err |-> ErrIO, sent |-> <<>>]}

\* What RetrieveFile may return and stream for identifier merkle: os.Open
\* fails for certain on a missing file and may fail otherwise, and io.Copy
\* streams the whole file or fails after some of it.
RetrieveResults(merkle) ==
    IF merkle \notin DOMAIN Files THEN {[err |-> ErrNoRecord, sent |-> <<>>]}
    ELSE LET path == HostDir \o Files[merkle]
         IN  IF path \notin DOMAIN disk THEN {[err |-> ErrIO, sent |-> <<>>]}
             ELSE LET content == inodes[disk[path]]
                  IN  {[err |-> ErrIO, sent |-> <<>>], [err |-> NoError, sent |-> content]}
                      \cup {[err |-> ErrIO, sent |-> SubSeq(content, 1, n)] : n \in 0..(Len(content) - 1)}

\* Lines 336-368.
RetrieveFile(merkle) ==
    \E res \in RetrieveResults(merkle) :
        /\ last' = [op |-> "RetrieveFile", merkle |-> merkle, res |-> res]
        /\ UNCHANGED <<hostVars, height, fsVars, sess>>
        /\ UNCHANGED lockVars

(* ------------------------------------------------------------------ *)
(* createStorageProof and storageProofMaintenance                       *)
(* ------------------------------------------------------------------ *)

\* createStorageProof fails for certain when the file of the contract cannot
\* be read: no record in Files (the name is then empty and the host
\* directory itself is opened), or no file of that name.
ProofImpossible(entry) ==
    \/ entry.Contract.FileMerkleRoot \notin DOMAIN Files
    \/ HostDir \o Files[entry.Contract.FileMerkleRoot] \notin DOMAIN disk

\* Lines 372-402: the proof is <<contract, height>>; failing holds the (contract, height) pairs for which a
\* collaborator (WindowIndex, StorageProofSegmentIndex, BuildReaderProof) fails.
createStorageProof(entry, stateHeight, failing) ==
    IF ProofImpossible(entry) \/ <<entry.ID, stateHeight>> \in failing
    THEN [err |-> ErrIO, sp |-> <<>>]
    ELSE [err |-> NoError, sp |-> <<entry.ID, stateHeight>>]

RECURSIVE RewindEntries(_, _, _, _, _)
\* Lines 421-428: the entries of one backward bucket; a failed proof is
\* logged and the loop goes on with the next entry.
RewindEntries(st, entries, i, h, failing) ==
    IF i > Len(entries) THEN st
    ELSE LET r == createStorageProof(entries[i], h, failing)
             st1 == IF r.err # NoError
                    THEN [st EXCEPT !.failed = Append(@, <<entries[i].ID, h>>)]
                    ELSE [st EXCEPT !.proofs = Append(@, r.sp)]
         IN  RewindEntries(st1, entries, i + 1, h, failing)

RECURSIVE RewindPhase(_, _, _, _)
\* Lines 419-430: one backward bucket per rewound block, walking down.
RewindPhase(st, h, n, failing) ==
    IF n = 0 THEN st
    ELSE RewindPhase(RewindEntries(st, Get(BackwardContracts, h), 1, h, failing),
                     h - 1, n - 1, failing)

\* height-StorageProofReorgDepth+1
BackwardHeight(h) == Uint(Uint(h - StorageProofReorgDepth) + 1)

\* Rescheduling without the comparison of the next proof with the contract's end.
RescheduleNoEnd(st, entry, h) ==
    LET b == BackwardHeight(h)
        nextProof == Uint(h + entry.Contract.ChallengeWindow)
    IN  [st EXCEPT !.B = Put(st.B, b, Append(Get(st.B, b), entry)),
                   !.F = Put(st.F, nextProof, Append(Get(st.F, nextProof), entry))]

\* Lines 445-456: a proved entry goes to the backward schedule, and to the
\* forward schedule one window later if that is before the contract's end.
Reschedule(st, entry, h) ==
    LET b == BackwardHeight(h)
        nextProof == Uint(h + entry.Contract.ChallengeWindow)
        B1 == Put(st.B, b, Append(Get(st.B, b), entry))
        F1 == IF nextProof < entry.Contract.End
              THEN Put(st.F, nextProof, Append(Get(st.F, nextProof), entry))
              ELSE st.F
    IN  [st EXCEPT !.B = B1, !.F = F1]

RECURSIVE ApplyEntriesNoContinue(_, _, _, _, _)
\* The walk of a forward bucket without the continue after a failed proof.
ApplyEntriesNoContinue(st, entries, i, h, failing) ==
    IF i > Len(entries) THEN st
    ELSE LET r == createStorageProof(entries[i], h, failing)
             st0 == IF r.err # NoError
                    THEN [st EXCEPT !.failed = Append(@, <<entries[i].ID, h>>)]
                    ELSE [st EXCEPT !.proofs = Append(@, r.sp)]
         IN  ApplyEntriesNoContinue(Reschedule(st0, entries[i], h), entries, i + 1, h, failing)

RECURSIVE ApplyEntriesBreak(_, _, _, _, _)
\* The walk of a forward bucket that stops at the first failed proof.
ApplyEntriesBreak(st, entries, i, h, failing) ==
    IF i > Len(entries) THEN st
    ELSE LET r == createStorageProof(entries[i], h, failing)
         IN  IF r.err # NoError
             THEN [st EXCEPT !.failed = Append(@, <<entries[i].ID, h>>)]
             ELSE ApplyEntriesBreak(Reschedule([st EXCEPT !.proofs = Append(@, r.sp)], entries[i], h),
                                    entries, i + 1, h, failing)

RECURSIVE ApplyEntries(_, _, _, _, _)
\* Lines 435-457: the entries of one forward bucket.
ApplyEntries(st, entries, i, h, failing) ==
    IF i > Len(entries) THEN st
    ELSE LET r == createStorageProof(entries[i], h, failing)
             st1 == IF r.err # NoError
                    THEN [st EXCEPT !.failed = Append(@, <<entries[i].ID, h>>)]
                    ELSE Reschedule([st EXCEPT !.proofs = Append(@, r.sp)], entries[i], h)
         IN  ApplyEntries(st1, entries, i + 1, h, failing)

RECURSIVE ApplyPhase(_, _, _, _)
\* Lines 433-460: one forward bucket per applied block, walking up; the
\* bucket is deleted once walked.
ApplyPhase(st, h, n, failing) ==
    IF n = 0 THEN st
    ELSE LET st1 == ApplyEntries(st, Get(st.F, h), 1, h, failing)
         IN  ApplyPhase([st1 EXCEPT !.F = Delete(@, h)], h + 1, n - 1, failing)

\* Lines 415-483: the walk of storageProofMaintenance from initialStateHeight
\* over rewound and then applied blocks.
MaintenanceWalk(initialStateHeight, rewound, applied, failing) ==
    ApplyPhase(RewindPhase([F |-> ForwardContracts, B |-> BackwardContracts,
                            proofs |-> <<>>, failed |-> <<>>],
                           initialStateHeight, rewound, failing),
               initialStateHeight - rewound, applied, failing)

\* One transaction per proof, in place of one for all of them.
ProofTransactionsEach(proofs) ==
    [i \in 1..Len(proofs) |-> [MinerFees |-> <<10>>, StorageProofs |-> <<proofs[i]>>]]

\* Lines 462-482: the transactions handed to e.AcceptTransaction for the
\* proofs of one walk. A failure of FundTransaction or SignTransaction is
\* only logged, and the transaction is submitted all the same.
ProofTransactions(proofs) ==
    IF Len(proofs) # 0 THEN <<[MinerFees |-> <<10>>, StorageProofs |-> proofs]>> ELSE <<>>

\* The entries of a bucket, as a set.
Entries(bucket) == {bucket[i] : i \in 1..Len(bucket)}

\* The heights of lo..hi at which an entry waiting at forward height k is due.
DueHeights(e, k, lo, hi) ==
    {x \in lo..hi : /\ x >= k
                    /\ \/ x = k
                       \/ /\ e.Contract.ChallengeWindow > 0
                          /\ (x - k) % e.Contract.ChallengeWindow = 0}

\* The (contract, height) pairs at which one walk may ask for a proof.
ProofAttempts(h0, rewound, applied) ==
    UNION {{<<e.ID, k>> : e \in Entries(Get(BackwardContracts, k))} : k \in (h0 - rewound + 1)..h0}
    \cup
    UNION {UNION {{<<e.ID, h>> : h \in DueHeights(e, k, h0 - rewound, h0 - rewound + applied - 1)}
                  : e \in Entries(ForwardContracts[k])}
           : k \in DOMAIN ForwardContracts}

\* One transition of the consensus state: rewound blocks are removed and
\* applied blocks added, and storageProofMaintenance runs for it under the
\* state lock and the host lock.
storageProofMaintenance(rewound, applied) ==
    /\ rewound <= height
    /\ rewound + applied > 0
    /\ height - rewound + applied <= MaxHeight
    /\ \E failing \in SUBSET ProofAttempts(height, rewound, applied) :
        LET st == MaintenanceWalk(height, rewound, applied, failing)
        IN  /\ ForwardContracts' = st.F
            /\ BackwardContracts' = st.B
            /\ last' = [op |-> "storageProofMaintenance",
                        rewound |-> rewound, applied |-> applied,
                        proofs |-> st.proofs, failed |-> st.failed,
                        submitted |-> ProofTransactions(st.proofs)]
    /\ height' = height - rewound + applied
    /\ UNCHANGED <<Settings, SpaceRemaining, Files, Index, fsVars, sess>>
    /\ UNCHANGED lockVars

(* ------------------------------------------------------------------ *)
(* The host                                                             *)
(* ------------------------------------------------------------------ *)

\* Every step takes and releases its locks within the step: no lock is held
\* from one state to the next.
Next ==
    \/ \E s \in Sessions : NegotiateContract(s)
    \/ \E ha \in Announcements : SetHostSettings(ha)
    \/ \E m \in RetrievalRequests : RetrieveFile(m)
    \/ \E rewound \in 0..MaxRewind, applied \in 0..MaxApply :
          storageProofMaintenance(rewound, applied)

Spec == Init /\ [][Next]_vars

\* The validator applied to a transaction, on its own.
ConsiderStep ==
    \E t \in ValidatorProposals, fundOK \in BOOLEAN, signOK \in BOOLEAN, validOK \in BOOLEAN :
        /\ last' = [op |-> "considerContract", t |-> t,
                    fundOK |-> fundOK, signOK |-> signOK, validOK |-> validOK,
                    err |-> considerContract(t, fundOK, signOK, validOK)]
        /\ UNCHANGED <<hostVars, height, fsVars, sess>>
        /\ UNCHANGED lockVars

\* The validator under every announcement and chain height.
InitConsider ==
    /\ Settings \in {ZeroSettings} \cup ValidatorAnnouncements
    /\ SpaceRemaining = Settings.TotalStorage
    /\ height \in 0..MaxHeight
    /\ Files = <<>>
    /\ Index = 0
    /\ ForwardContracts = <<>>
    /\ BackwardContracts = <<>>
    /\ disk = <<>>
    /\ inodes = <<>>
    /\ sess = [s \in Sessions |-> IdleSession]
    /\ last = [op |-> "create"]
    /\ LocksFree

NextConsider == ConsiderStep

SpecConsider == InitConsider /\ [][NextConsider]_vars

(* ------------------------------------------------------------------ *)
(* The locks of considerContract and of the chain-update path           *)
(* ------------------------------------------------------------------ *)

\* Line 149: e.host.Lock(), which waits until the lock is free.
ConsiderLock(s) ==
    /\ sess[s].pc = "idle"
    /\ hostLock = Free
    /\ \E t \in ProposalsOf(s) :
          sess' = [sess EXCEPT ![s] = [pc |-> "checks", t |-> t]]
    /\ hostLock' = s
    /\ last' = [op |-> "validate", step |-> "lock"]
    /\ UNCHANGED <<hostVars, height, fsVars, stateLock, upd>>

\* Lines 152-239 under the host lock: the policy checks and the wallet. A
\* return (or the panic of line 152) runs the deferred e.host.Unlock().
ConsiderChecks(s) ==
    /\ sess[s].pc = "checks"
    /\ \E c \in {x \in CollaboratorOutcomes(sess[s].t) : x[3]} :
          LET err == considerContract(sess[s].t, c[1], c[2], TRUE)
          IN  IF err = NoError
              THEN /\ sess' = [sess EXCEPT ![s].pc = "rlock"]
                   /\ hostLock' = hostLock
                   /\ last' = [op |-> "validate", step |-> "checks"]
              ELSE /\ sess' = [sess EXCEPT ![s] = IdleSession]
                   /\ hostLock' = Free
                   /\ last' = [op |-> "validate", step |-> "return", err |-> err]
    /\ UNCHANGED <<hostVars, height, fsVars, stateLock, upd>>

\* Line 242: e.state.RLock(), which waits while a writer holds the lock. The
\* deferred e.host.Unlock() has not run: the host lock is still held.
ConsiderRLock(s) ==
    /\ sess[s].pc = "rlock"
    /\ stateLock.writer = Free
    /\ stateLock' = [stateLock EXCEPT !.readers = @ \cup {s}]
    /\ sess' = [sess EXCEPT ![s].pc = "valid"]
    /\ last' = [op |-> "validate", step |-> "rlock"]
    /\ UNCHANGED <<hostVars, height, fsVars, hostLock, upd>>

\* Lines 243-252: ValidTransaction, e.state.RUnlock(), the return and the
\* deferred e.host.Unlock().
ConsiderValid(s) ==
    /\ sess[s].pc = "valid"
    /\ \E validOK \in BOOLEAN :
          last' = [op |-> "validate", step |-> "return",
                   err |-> considerContract(sess[s].t, TRUE, TRUE, validOK)]
    /\ stateLock' = [stateLock EXCEPT !.readers = @ \ {s}]
    /\ hostLock' = Free
    /\ sess' = [sess EXCEPT ![s] = IdleSession]
    /\ UNCHANGED <<hostVars, height, fsVars, upd>>

\* The chain-update path takes the write lock of the consensus state ...
UpdateLockState ==
    /\ upd = "idle"
    /\ height < MaxHeight
    /\ stateLock = [writer |-> Free, readers |-> {}]
    /\ stateLock' = [stateLock EXCEPT !.writer = UpdatePath]
    /\ upd' = "hostLock"
    /\ last' = [op |-> "update", step |-> "state.Lock"]
    /\ UNCHANGED <<hostVars, height, fsVars, sess, hostLock>>

\* ... then the host lock ...
UpdateLockHost ==
    /\ upd = "hostLock"
    /\ hostLock = Free
    /\ hostLock' = UpdatePath
    /\ upd' = "walk"
    /\ last' = [op |-> "update", step |-> "host.Lock"]
    /\ UNCHANGED <<hostVars, height, fsVars, sess, stateLock>>

\* ... applies a block and runs storageProofMaintenance under both locks ...
UpdateWalk ==
    /\ upd = "walk"
    /\ LET st == MaintenanceWalk(height, 0, 1, {})
       IN  /\ ForwardContracts' = st.F
           /\ BackwardContracts' = st.B
           /\ last' = [op |-> "storageProofMaintenance", rewound |-> 0, applied |-> 1,
                       proofs |-> st.proofs, failed |-> st.failed,
                       submitted |-> ProofTransactions(st.proofs)]
    /\ height' = height + 1
    /\ upd' = "unlock"
    /\ UNCHANGED <<Settings, SpaceRemaining, Files, Index, fsVars, sess, hostLock, stateLock>>

\* ... and releases both.
UpdateUnlock ==
    /\ upd = "unlock"
    /\ hostLock' = Free
    /\ stateLock' = [stateLock EXCEPT !.writer = Free]
    /\ upd' = "idle"
    /\ last' = [op |-> "update", step |-> "unlock"]
    /\ UNCHANGED <<hostVars, height, fsVars, sess>>

\* SetHostSettings, lines 65-66: under the host lock.
SetHostSettingsLocked(ha) ==
    /\ hostLock = Free
    /\ SetHostSettings(ha)

NextLocks ==
    \/ \E s \in Sessions : ConsiderLock(s)
    \/ \E s \in Sessions : ConsiderChecks(s)
    \/ \E s \in Sessions : ConsiderRLock(s)
    \/ \E s \in Sessions : ConsiderValid(s)
    \/ UpdateLockState
    \/ UpdateLockHost
    \/ UpdateWalk
    \/ UpdateUnlock
    \/ \E ha \in Announcements : SetHostSettingsLocked(ha)

\* The validator and the chain-update path with their locks.
SpecLocks == Init /\ [][NextLocks]_vars

(* ------------------------------------------------------------------ *)
(* Properties                                                           *)
(* ------------------------------------------------------------------ *)

\* The positions <<height, index>> of contract id in a schedule.
Positions(schedule, id) ==
    UNION {{<<k, i>> : i \in {j \in 1..Len(schedule[k]) : schedule[k][j].ID = id}}
           : k \in DOMAIN schedule}

\* The contracts with an entry in a schedule.
ScheduledIDs(schedule) ==
    UNION {{e.ID : e \in Entries(schedule[k])} : k \in DOMAIN schedule}

IsConsiderReply(l) == l.op = "NegotiateContract" /\ l.step = "consider"
IsMaintenance(l) == l.op = "storageProofMaintenance"
IsRetrieve(l) == l.op = "RetrieveFile"

\* The eleven policy checks of a transaction, in order, as <<holds, reason>>,
\* in the arithmetic of the integers.
PolicyChecks(t) ==
    IF Len(t.FileContracts) # 1 THEN <<<<FALSE, ErrOneContract>>>>
    ELSE LET fc == t.FileContracts[1]
         IN  << <<TRUE, ErrOneContract>>,
                <<Settings.MinFilesize <= fc.FileSize /\ fc.FileSize <= Settings.MaxFilesize,
                  ErrFileSize>>,
                <<fc.FileSize <= SpaceRemaining, ErrCapacity>>,
                <<Settings.MinDuration <= fc.End - height /\ fc.End - height <= Settings.MaxDuration,
                  ErrDuration>>,
                <<Settings.MinChallengeWindow <= fc.ChallengeWindow
                    /\ fc.ChallengeWindow <= Settings.MaxChallengeWindow, ErrChallenge>>,
                <<fc.Tolerance >= Settings.MinTolerance, ErrTolerance>>,
                <<fc.ValidProofAddress = Settings.CoinAddress, ErrValidAddress>>,
                <<fc.ValidProofPayout >= Settings.Price * fc.FileSize * fc.ChallengeWindow,
                  ErrValidPayout>>,
                <<fc.MissedProofAddress = EmptyAddress, ErrMissedAddress>>,
                <<fc.MissedProofPayout <= Settings.Burn * fc.FileSize * fc.ChallengeWindow,
                  ErrMissedPayout>>,
                <<fc.ContractFund >= (Settings.Burn + Settings.Price) * fc.FileSize * (fc.End - fc.Start),
                  ErrFund>> >>

AllChecksHold(t) == \A i \in 1..Len(PolicyChecks(t)) : PolicyChecks(t)[i][1]

FirstFailingReason(t) ==
    LET c == PolicyChecks(t)
        i == CHOOSE k \in 1..Len(c) : ~c[k][1] /\ \A j \in 1..(k - 1) : c[j][1]
    IN  c[i][2]

\* C1: considerContract returns no error exactly when the eleven policy
\* checks hold and the wallet and consensus collaborators succeed, and when
\* checks fail it returns the reason of the first failing check.
C1_AcceptsIffAllChecks ==
    last.op = "considerContract" =>
        /\ (last.err = NoError) <=>
                (AllChecksHold(last.t) /\ last.fundOK /\ last.signOK /\ last.validOK)
        /\ ~AllChecksHold(last.t) => last.err = FirstFailingReason(last.t)

\* C2: a proposal whose number of file contracts is not one is answered with
\* "transaction must have exactly one contract", and the host state is unchanged.
C2_NotOneContractRejected ==
    [][(IsConsiderReply(last') /\ last'.contracts # 1) =>
          /\ last'.cerr = ErrOneContract
          /\ last'.sent = <<ErrOneContract>>
          /\ UNCHANGED hostVars]_vars

\* C3: when considerContract rejects a proposal, NegotiateContract writes the
\* reason to the connection and returns: no session advances, the host state
\* is unchanged and no file is created; and a single contract whose file size
\* is out of [MinFilesize, MaxFilesize] is rejected with the file-size reason.
C3_RejectionChangesNothing ==
    [][(IsConsiderReply(last') /\ last'.cerr \notin {NoError, PanicIndex}) =>
          /\ last'.sent = <<last'.cerr>>
          /\ sess' = sess
          /\ UNCHANGED <<hostVars, fsVars>>
          /\ (/\ last'.contracts = 1
              /\ \/ last'.fileSize < Settings.MinFilesize
                 \/ last'.fileSize > Settings.MaxFilesize) => last'.cerr = ErrFileSize]_vars

\* A proposal of out-of-range size was rejected by a host that holds files
\* and scheduled contracts.
C3_Witness ==
    /\ IsConsiderReply(last)
    /\ last.cerr = ErrFileSize
    /\ last.fileSize > Settings.MaxFilesize
    /\ Settings = ScenarioSettings
    /\ Files # <<>>
    /\ ForwardContracts # <<>>

\* C4: a negotiation whose timeliness check runs at a height >= contractStart - 2
\* aborts: nothing is added to Files or the forward schedule and the uploaded
\* file is deleted.
C4_LateUploadAborts ==
    [][\A s \in Sessions :
          (/\ sess[s].pc = "timecheck"
           /\ sess'[s].pc # "timecheck"
           /\ height >= sess[s].t.FileContracts[1].Start - 2) =>
              /\ sess'[s].pc = "done"
              /\ UNCHANGED <<Files, ForwardContracts>>
              /\ sess[s].fname \notin DOMAIN disk']_vars

\* C5: the bytes stored at the location of every entry of Files have the
\* merkle root the entry is filed under.
C5_StoredDataMatchesRoot ==
    \A r \in DOMAIN Files :
        /\ HostDir \o Files[r] \in DOMAIN disk
        /\ HashBytes(inodes[disk[HostDir \o Files[r]]]) = r

\* C6: no contract entry is in the forward and in the backward schedule at the
\* same time.
C6_ForwardBackwardExclusive ==
    ScheduledIDs(ForwardContracts) \cap ScheduledIDs(BackwardContracts) = {}

\* C6 as amended: an entry may be in both schedules at once; it enters the
\* backward schedule only in a storageProofMaintenance call that built a
\* proof for it.
C6_BackwardOnlyAfterProof ==
    [][\A id \in ScheduledIDs(BackwardContracts') \ ScheduledIDs(BackwardContracts) :
          /\ IsMaintenance(last')
          /\ \E i \in 1..Len(last'.proofs) : last'.proofs[i][1] = id]_vars

\* A maintenance call has left a contract in both schedules.
C6_Witness ==
    /\ IsMaintenance(last)
    /\ \E id \in ScheduledIDs(ForwardContracts) \cap ScheduledIDs(BackwardContracts) :
          \E i \in 1..Len(last.proofs) : last.proofs[i][1] = id

\* C7: no entry is ever at two forward heights or twice in a bucket, and an
\* entry with a challenge window remaining before its End is in the forward
\* schedule, once, at the height of its next proof: when one applied block
\* takes it from height f with f + ChallengeWindow < End, it is afterwards at
\* f + ChallengeWindow, and an entry not due stays where it is.
C7_OneForwardBucket ==
    /\ [](\A id \in ScheduledIDs(ForwardContracts) :
              Cardinality(Positions(ForwardContracts, id)) = 1)
    /\ [][(IsMaintenance(last') /\ last'.rewound = 0 /\ last'.applied = 1) =>
            \A f \in DOMAIN ForwardContracts : \A e \in Entries(ForwardContracts[f]) :
                LET next == IF f = height THEN f + e.Contract.ChallengeWindow ELSE f
                IN  next < e.Contract.End \/ f # height =>
                        /\ next \in DOMAIN ForwardContracts'
                        /\ e \in Entries(ForwardContracts'[next])]_vars

\* C8: after the apply phase has processed height Start + 6 of an entry
\* registered there, the entry is not in ForwardContracts[Start+6]; it is in
\* ForwardContracts[Start+6+ChallengeWindow] if that is before End, and nowhere
\* in the forward schedule otherwise, whatever the outcome of the proof.
C8_RescheduledAfterFirstProof ==
    [][(IsMaintenance(last') /\ last'.applied >= 1) =>
          LET h == height' - 1
          IN  \A e \in Entries(Get(ForwardContracts, h)) :
                  h = e.Contract.Start + StorageProofReorgDepth =>
                      /\ e \notin Entries(Get(ForwardContracts', h))
                      /\ IF h + e.Contract.ChallengeWindow < e.Contract.End
                         THEN e \in Entries(Get(ForwardContracts', h + e.Contract.ChallengeWindow))
                         ELSE e.ID \notin ScheduledIDs(ForwardContracts')]_vars

\* C9: a storageProofMaintenance call that rewinds k blocks and applies k
\* blocks leaves both schedules as they were.
C9_RewindReapplyIdentity ==
    [][(IsMaintenance(last') /\ last'.rewound >= 1 /\ last'.rewound = last'.applied) =>
          UNCHANGED <<ForwardContracts, BackwardContracts>>]_vars

\* C10: RetrieveFile for an identifier that is not in Files fails with "no
\* record of that file" and streams nothing, and on every path RetrieveFile
\* leaves the host state unchanged.
C10_RetrieveReadsOnly ==
    [][IsRetrieve(last') =>
          /\ UNCHANGED <<hostVars, fsVars>>
          /\ last'.merkle \notin DOMAIN Files =>
                last'.res = [err |-> ErrNoRecord, sent |-> <<>>]]_vars

\* An unknown identifier was asked of a host that holds files and scheduled
\* contracts.
C10_Witness ==
    /\ IsRetrieve(last)
    /\ last.merkle \notin DOMAIN Files
    /\ last.res.err = ErrNoRecord
    /\ Files # <<>>
    /\ ForwardContracts # <<>>

\* The entries of both schedules: the contracts the host has taken on.
ScheduledEntries ==
    UNION {Entries(ForwardContracts[k]) : k \in DOMAIN ForwardContracts}
    \cup UNION {Entries(BackwardContracts[k]) : k \in DOMAIN BackwardContracts}

RECURSIVE SumFileSize(_)
SumFileSize(S) ==
    IF S = {} THEN 0
    ELSE LET e == CHOOSE x \in S : TRUE IN e.Contract.FileSize + SumFileSize(S \ {e})

\* C11: the combined file size of the contracts the host has accepted and
\* scheduled never exceeds the total storage of its settings.
C11_SoldWithinCapacity ==
    SumFileSize(ScheduledEntries) <= Settings.TotalStorage

\* C12: a NegotiateContract session that completes without error records,
\* under the contract's merkle root, the location it wrote, increments Index
\* by one, and appends one entry for the contract to ForwardContracts at
\* Start + 6 and touches no other height; BackwardContracts, Settings and
\* SpaceRemaining are unchanged.
C12_SuccessfulSessionEffects ==
    [][\A s \in Sessions :
          /\ (sess[s].pc = "register" /\ sess'[s].pc = "submit") =>
                /\ Index' = Index + 1
                /\ \E name \in {Itoa(Index)} :
                      /\ Files' = Put(Files, sess[s].t.FileContracts[1].FileMerkleRoot, name)
                      /\ HostDir \o name = sess[s].fname
                /\ UNCHANGED <<ForwardContracts, BackwardContracts, Settings, SpaceRemaining>>
          /\ (sess[s].pc = "insert" /\ sess'[s].pc = "done") =>
                LET fc == sess[s].t.FileContracts[1]
                    at == fc.Start + StorageProofReorgDepth
                IN  /\ ForwardContracts' =
                          Put(ForwardContracts, at,
                              Append(Get(ForwardContracts, at), ContractEntry(sess[s].t)))
                    /\ HostDir \o Files[fc.FileMerkleRoot] = sess[s].fname
                    /\ UNCHANGED <<Files, Index, BackwardContracts, Settings, SpaceRemaining>>]_vars

\* C13: a session that fails after the acceptance token leaves nothing
\* behind; every entry of Files names a file that exists in the host
\* directory.
C13_FilesEntriesExist ==
    \A r \in DOMAIN Files : HostDir \o Files[r] \in DOMAIN disk

\* The heights one storageProofMaintenance call applies, from the state
\* before the call and the record of the call.
AppliedHeights(h0, l) == (h0 - l.rewound)..(h0 - l.rewound + l.applied - 1)

\* A sequence that begins with another.
IsPrefix(a, b) == Len(a) <= Len(b) /\ SubSeq(b, 1, Len(a)) = a

\* C14: an entry the apply phase processes at a height h with
\* h + ChallengeWindow >= End is afterwards in neither schedule.
C14_DroppedFromBoth ==
    [][IsMaintenance(last') =>
          \A k \in AppliedHeights(height, last') \cap DOMAIN ForwardContracts :
              \A e \in Entries(ForwardContracts[k]) :
                  k + e.Contract.ChallengeWindow >= e.Contract.End =>
                      /\ e.ID \notin ScheduledIDs(ForwardContracts')
                      /\ e.ID \notin ScheduledIDs(BackwardContracts')]_vars

\* C14 as amended: such an entry leaves the forward schedule only: the bucket
\* of h is deleted and the entry is put at no other forward height. If its
\* proof was built it has been appended to the backward bucket of h - 5, and
\* no storageProofMaintenance call removes an entry from the backward schedule.
C14_DroppedFromForwardOnly ==
    [][IsMaintenance(last') =>
          /\ \A k \in AppliedHeights(height, last') \cap DOMAIN ForwardContracts :
                \A e \in Entries(ForwardContracts[k]) :
                    k + e.Contract.ChallengeWindow >= e.Contract.End =>
                        /\ k \notin DOMAIN ForwardContracts'
                        /\ \A j \in DOMAIN ForwardContracts' :
                              e \in Entries(ForwardContracts'[j]) =>
                                  j \in DOMAIN ForwardContracts /\ e \in Entries(ForwardContracts[j])
                        /\ (\E i \in 1..Len(last'.proofs) : last'.proofs[i] = <<e.ID, k>>) =>
                              e \in Entries(Get(BackwardContracts', k - StorageProofReorgDepth + 1))
          /\ \A b \in DOMAIN BackwardContracts :
                /\ b \in DOMAIN BackwardContracts'
                /\ IsPrefix(BackwardContracts[b], BackwardContracts'[b])]_vars

\* The apply phase has built the proof of the last window of a contract: the
\* entry is in the backward schedule and no longer in the forward schedule.
C14_Witness ==
    /\ IsMaintenance(last)
    /\ last.rewound = 0
    /\ \E i \in 1..Len(last.proofs) :
          LET id == last.proofs[i][1]
              h == last.proofs[i][2]
          IN  /\ id \notin ScheduledIDs(ForwardContracts)
              /\ \E e \in Entries(Get(BackwardContracts, h - StorageProofReorgDepth + 1)) :
                    /\ e.ID = id
                    /\ h + e.Contract.ChallengeWindow >= e.Contract.End

\* C15: one storageProofMaintenance call submits at most one transaction: one
\* that carries every proof of its rewind and apply phases when a proof was
\* built, and none when no proof was built.
C15_OneProofTransaction ==
    IsMaintenance(last) =>
        /\ Len(last.submitted) <= 1
        /\ Len(last.proofs) = 0 => last.submitted = <<>>
        /\ Len(last.proofs) > 0 =>
              /\ Len(last.submitted) = 1
              /\ last.submitted[1].StorageProofs = last.proofs

\* A call that built two proofs submitted them in one transaction.
C15_Witness ==
    /\ IsMaintenance(last)
    /\ Len(last.proofs) >= 2
    /\ Len(last.submitted) = 1
    /\ Len(last.submitted[1].StorageProofs) >= 2

\* The heights one storageProofMaintenance call rewinds.
RewoundHeights(h0, l) == (h0 - l.rewound + 1)..h0

\* How often x occurs in a sequence.
Occurrences(seq, x) == Cardinality({i \in 1..Len(seq) : seq[i] = x})

\* The entries of contract id in a bucket.
InBucket(schedule, k, id) ==
    Cardinality({i \in 1..Len(Get(schedule, k)) : Get(schedule, k)[i].ID = id})

\* C16: a failed proof construction skips that entry's proof only. In one
\* storageProofMaintenance call every entry of a rewound backward bucket and of
\* an applied forward bucket is processed, whatever failed before it: its
\* proof is among the proofs of the call unless its own construction failed;
\* and an entry rescheduled to a height the same call applies is processed
\* there again.
C16_FailureSkipsOneEntry ==
    [][IsMaintenance(last') =>
          LET done(x) == Occurrences(last'.proofs, x) + Occurrences(last'.failed, x)
          IN  /\ \A k \in RewoundHeights(height, last') \cup AppliedHeights(height, last') :
                    \A id \in ScheduledIDs(ForwardContracts) \cup ScheduledIDs(BackwardContracts) :
                        done(<<id, k>>) >=
                            (IF k \in RewoundHeights(height, last')
                             THEN InBucket(BackwardContracts, k, id) ELSE 0)
                            + (IF k \in AppliedHeights(height, last')
                               THEN InBucket(ForwardContracts, k, id) ELSE 0)
              /\ last'.rewound = 0 =>
                    \A k \in AppliedHeights(height, last') :
                        \A e \in Entries(Get(ForwardContracts, k)) :
                            LET n == k + e.Contract.ChallengeWindow
                            IN  (/\ Occurrences(last'.proofs, <<e.ID, k>>) > 0
                                 /\ n < e.Contract.End
                                 /\ n \in AppliedHeights(height, last')) => done(<<e.ID, n>>) > 0]_vars

\* In one call the proof of one contract failed and the proof of another
\* contract due at the same height was built.
C16_Witness ==
    /\ IsMaintenance(last)
    /\ \E i \in 1..Len(last.failed) : \E j \in 1..Len(last.proofs) :
          /\ last.failed[i][2] = last.proofs[j][2]
          /\ last.failed[i][1] # last.proofs[j][1]

\* A session between the read and the write of line 330's
\* e.host.ForwardContracts[firstProof] = append(e.host.ForwardContracts[firstProof], ...).
InScheduleUpdate(s) == sess[s].pc = "insert"

\* C17: no two processes are inside a read-modify-write of the proof schedule
\* at the same time: never two sessions, and no storageProofMaintenance walk
\* runs, nor does the schedule change, while a session is between the read and
\* the write of its insertion.
C17_ScheduleMutationsExclusive ==
    /\ [](Cardinality({s \in Sessions : InScheduleUpdate(s)}) <= 1)
    /\ [][\A s \in Sessions :
              (InScheduleUpdate(s) /\ sess'[s] = sess[s]) =>
                  /\ ~IsMaintenance(last')
                  /\ ForwardContracts' = ForwardContracts]_vars

\* C18: concurrent sessions never hold the same file: any two sessions between
\* os.Create and their return have different file names, and a session that
\* has registered its file has recorded in Files the name it wrote to.
C18_FreshLocationPerSession ==
    /\ \A s, o \in Sessions :
          (s # o /\ HasFile(sess[s]) /\ HasFile(sess[o])) => sess[s].fname # sess[o].fname
    /\ \A s \in Sessions :
          sess[s].pc = "submit" =>
              HostDir \o Files[sess[s].t.FileContracts[1].FileMerkleRoot] = sess[s].fname

\* C20: no proof obligation is stranded: every entry NegotiateContract
\* inserts into ForwardContracts goes to a height the apply phase has not yet
\* walked (the walk has covered the heights below the current one), so that
\* the driver will visit it.
C20_InsertedAtUnprocessedHeight ==
    [][\A s \in Sessions :
          (sess[s].pc = "insert" /\ sess'[s].pc = "done") =>
              sess[s].t.FileContracts[1].Start + StorageProofReorgDepth >= height]_vars

\* A validation that holds the host lock and waits for the state lock, and a
\* chain update that holds the state lock and waits for the host lock.
LockDeadlock ==
    /\ upd = "hostLock"
    /\ stateLock.writer = UpdatePath
    /\ \E s \in Sessions : hostLock = s /\ sess[s].pc = "rlock"

\* C19: considerContract does not hold the host lock when it takes (or while
\* it holds) the lock of the consensus state, so the validation and the chain
\* update never wait for each other's lock.
C19_NoLockOrderInversion ==
    /\ \A s \in Sessions : sess[s].pc \in {"rlock", "valid"} => hostLock # s
    /\ ~LockDeadlock

====
